---------------------------- MODULE Spec2Model ----------------------------
(***************************************************************************)
(* Gallery plugin (src/main.ts): the extraction pipeline                   *)
(* (getGalleryContent -> parseGalleryLine -> the aggregation fold of       *)
(* extract) and the search handler of GallerySearchView (evaluateField     *)
(* per field, combined per entry).                                         *)
(*                                                                         *)
(* Strings are sequences of one-character strings, so that includes,       *)
(* toLowerCase, split, trim and the two regular expressions are computed   *)
(* character by character.  A JavaScript Map is a sequence of entries with *)
(* pairwise different keys, in insertion order.  A value that may be null  *)
(* is a sequence of length 0 or 1.                                         *)
(***************************************************************************)
EXTENDS Integers, Sequences, FiniteSets

VARIABLES
    \* ---- ExtractGalleryData.extract, one call (specification Spec) ----
    vault,          \* app.vault.getMarkdownFiles(): sequence of [basename, content]
    mode,           \* this.mode: "explicit" | "virtual"
    sourceData,     \* this.sourceData: names (explicit) or markers (virtual)
    pc,             \* where the call is: "select" | "parse" | "fold" | "done" | "failed"
    idx,            \* position of the running for-loop (1-based)
    results,        \* getGalleryContent: const results
    reads,          \* the cachedRead calls issued so far: [doc, ok]
    parsedEntries,  \* extract: const parsedEntries
    imageMap,       \* extract: const imageMap
    returned,       \* what the caller of extract() got: <<>> (nothing yet) or <<map>>
    error,          \* the rejection the caller of extract() got: <<>> or <<doc>>
    \* ---- GallerySearchView, after onOpen (specification SpecView) ----
    suggestions,    \* onOpen: const suggestions
    fullImageMap,   \* onOpen: const fullImageMap
    controls,       \* the three search blocks: selectEl.value and selectedList of each
    filters,        \* confirmButton.onclick: const filters; <<>> when no click has read
                    \* the controls as they are now
    virtualMap,     \* confirmButton.onclick: const virtualMap
    \* ---- evaluateField, one call (specification SpecEval) ----
    evValue, evTerms, evMode, evResult,
    \* ---- parseGalleryLine, one call (specification SpecParse) ----
    pLine, pGallery, pResult,
    \* ---- the aggregation of extract() on given blocks (specification SpecAgg) ----
    aggBlocks, aggPerm, aggOnce, aggTwice, aggPermuted

extractVars == <<vault, mode, sourceData, pc, idx, results, reads, parsedEntries,
                 imageMap, returned, error>>
viewVars == <<suggestions, fullImageMap, controls, filters, virtualMap>>
evalVars == <<evValue, evTerms, evMode, evResult>>
parseVars == <<pLine, pGallery, pResult>>
aggVars == <<aggBlocks, aggPerm, aggOnce, aggTwice, aggPermuted>>
vars == <<extractVars, viewVars, evalVars, parseVars, aggVars>>

-----------------------------------------------------------------------------
(* Bounds of the model.                                                    *)

MaxDocs == 2        \* documents in the vault
MaxNames == 3       \* names of an explicit source list
MaxValues == 2      \* values of an array field given to evaluateField
MaxTerms == 2       \* terms of one field of a filter
MaxTokens == 5      \* tokens a line given to parseGalleryLine is made of
MaxBlocks == 3      \* blocks given to the aggregation

-----------------------------------------------------------------------------
(* Strings.                                                                *)

\* The sequences over S of length at most n.
SeqsUpTo(S, n) == UNION {[1..k -> S] : k \in 0..n}

RECURSIVE Flatten(_)
Flatten(ss) == IF ss = <<>> THEN <<>> ELSE Head(ss) \o Flatten(Tail(ss))

\* t occurs in s at position i (1-based).
StartsAt(s, t, i) == /\ i >= 1
                     /\ i + Len(t) - 1 <= Len(s)
                     /\ SubSeq(s, i, i + Len(t) - 1) = t

\* String.prototype.includes
Includes(s, t) == \E i \in 1..(Len(s) - Len(t) + 1) : StartsAt(s, t, i)

\* Array.prototype.includes
ArrayIncludes(arr, x) == \E i \in 1..Len(arr) : arr[i] = x

UpperCase == {"A", "B", "C", "D", "G", "R"}
LowerOf == [c \in UpperCase |->
              CASE c = "A" -> "a" [] c = "B" -> "b" [] c = "C" -> "c"
                [] c = "D" -> "d" [] c = "G" -> "g" [] c = "R" -> "r"]

\* String.prototype.toLowerCase, on the characters the model uses.
toLowerCase(s) == [i \in 1..Len(s) |-> IF s[i] \in UpperCase THEN LowerOf[s[i]] ELSE s[i]]

WhiteSpace == {" ", "\t", "\r"}

\* String.prototype.trim
RECURSIVE TrimStart(_)
TrimStart(s) == IF s # <<>> /\ Head(s) \in WhiteSpace THEN TrimStart(Tail(s)) ELSE s
RECURSIVE TrimEnd(_)
TrimEnd(s) == IF s # <<>> /\ s[Len(s)] \in WhiteSpace
              THEN TrimEnd(SubSeq(s, 1, Len(s) - 1)) ELSE s
trim(s) == TrimEnd(TrimStart(s))

\* String.prototype.split with a one-character separator: "" splits to [""].
RECURSIVE split(_, _)
split(s, sep) ==
    IF \E i \in 1..Len(s) : s[i] = sep
    THEN LET i == CHOOSE k \in 1..Len(s) : s[k] = sep /\ \A j \in 1..(k - 1) : s[j] # sep
         IN  <<SubSeq(s, 1, i - 1)>> \o split(SubSeq(s, i + 1, Len(s)), sep)
    ELSE <<s>>

SetMin(S) == CHOOSE x \in S : \A y \in S : x <= y

-----------------------------------------------------------------------------
(* parseGalleryLine: the two regular expressions, leftmost match, lazy     *)
(* groups.                                                                 *)

\* "." of a regular expression matches no line terminator.
LineTerminator == {"\n", "\r"}
AllDot(s, from, to) == \A k \in from..to : s[k] \notin LineTerminator

AnnotatedOpen == <<"<", "!", "[", "[">>
AnnotatedMid == <<"]", "]", "<">>
AnnotatedClose == <<">", ">">>
BareOpen == <<"!", "[", "[">>
BareClose == <<"]", "]">>

\* /<!\[\[(.*?)\]\]<(.*?)>>/ : the ends f of group 2 for a match that starts at s
\* and whose group 1 ends before e.
AnnotatedEnds(line, s, e) ==
    {f \in (e + 3)..Len(line) :
        StartsAt(line, AnnotatedClose, f) /\ AllDot(line, e + 3, f - 1)}
AnnotatedMids(line, s) ==
    {e \in (s + 4)..Len(line) :
        /\ StartsAt(line, AnnotatedMid, e)
        /\ AllDot(line, s + 4, e - 1)
        /\ AnnotatedEnds(line, s, e) # {}}
AnnotatedStarts(line) ==
    {s \in 1..Len(line) : StartsAt(line, AnnotatedOpen, s) /\ AnnotatedMids(line, s) # {}}

\* line.match(/<!\[\[(.*?)\]\]<(.*?)>>/): <<>> (null) or <<[g1, g2]>>
matchAnnotated(line) ==
    IF AnnotatedStarts(line) = {} THEN <<>>
    ELSE LET s == SetMin(AnnotatedStarts(line))
             e == SetMin(AnnotatedMids(line, s))
             f == SetMin(AnnotatedEnds(line, s, e))
         IN  <<[g1 |-> SubSeq(line, s + 4, e - 1), g2 |-> <<SubSeq(line, e + 3, f - 1)>>]>>

BareEnds(line, s) ==
    {e \in (s + 3)..Len(line) : StartsAt(line, BareClose, e) /\ AllDot(line, s + 3, e - 1)}
BareStarts(line) ==
    {s \in 1..Len(line) : StartsAt(line, BareOpen, s) /\ BareEnds(line, s) # {}}

\* line.match(/!\[\[(.*?)\]\]/): <<>> (null) or <<[g1, g2]>>, g2 undefined (<<>>)
matchBare(line) ==
    IF BareStarts(line) = {} THEN <<>>
    ELSE LET s == SetMin(BareStarts(line))
             e == SetMin(BareEnds(line, s))
         IN  <<[g1 |-> SubSeq(line, s + 3, e - 1), g2 |-> <<>>]>>

\* parseGalleryLine(line, gallery): <<>> (null) or <<oneGalleryEntry>>
parseGalleryLine(line, gallery) ==
    LET match == IF matchAnnotated(line) # <<>> THEN matchAnnotated(line) ELSE matchBare(line)
    IN  IF match = <<>> THEN <<>>
        ELSE LET m == match[1]
                 parts == IF m.g2 = <<>> THEN <<>> ELSE split(m.g2[1], ",")
                 props == [i \in 1..Len(parts) |-> trim(parts[i])]
             IN  <<[filename |-> m.g1, gallery |-> gallery, properties |-> props]>>

-----------------------------------------------------------------------------
(* evaluateField.  A field value is a string or an array of strings.       *)

Scalar(s) == [isArray |-> FALSE, val |-> s]
Array(a) == [isArray |-> TRUE, val |-> a]

LogicModes == {"disable", "or", "and", "not"}

\* evaluateField with the terms compared as typed (line 126 left out)
evaluateFieldTermsAsTyped(value, terms, m) ==
    IF m = "disable" THEN TRUE
    ELSE
      LET values == IF value.isArray
                    THEN [i \in 1..Len(value.val) |-> toLowerCase(value.val[i])]
                    ELSE <<toLowerCase(value.val)>>
      IN  IF Len(terms) = 0 THEN m = "not"
          ELSE CASE m = "or" ->
                      \E t \in 1..Len(terms) :
                          \E v \in 1..Len(values) : Includes(values[v], terms[t])
                 [] m = "and" ->
                      \A t \in 1..Len(terms) :
                          \E v \in 1..Len(values) : Includes(values[v], terms[t])
                 [] m = "not" ->
                      \A t \in 1..Len(terms) :
                          \A v \in 1..Len(values) : ~Includes(values[v], terms[t])

\* evaluateField without the empty-terms case (lines 128-130 left out)
evaluateFieldNoEmptyCase(value, terms, m) ==
    IF m = "disable" THEN TRUE
    ELSE
      LET values == IF value.isArray
                    THEN [i \in 1..Len(value.val) |-> toLowerCase(value.val[i])]
                    ELSE <<toLowerCase(value.val)>>
          termsLower == [i \in 1..Len(terms) |-> toLowerCase(terms[i])]
      IN  CASE m = "or" ->
                 \E t \in 1..Len(termsLower) :
                     \E v \in 1..Len(values) : Includes(values[v], termsLower[t])
            [] m = "and" ->
                 \A t \in 1..Len(termsLower) :
                     \E v \in 1..Len(values) : Includes(values[v], termsLower[t])
            [] m = "not" ->
                 \A t \in 1..Len(termsLower) :
                     \A v \in 1..Len(values) : ~Includes(values[v], termsLower[t])

\* lines 119-146
evaluateField(value, terms, m) ==
    IF m = "disable" THEN TRUE
    ELSE
      LET values == IF value.isArray
                    THEN [i \in 1..Len(value.val) |-> toLowerCase(value.val[i])]
                    ELSE <<toLowerCase(value.val)>>
          termsLower == [i \in 1..Len(terms) |-> toLowerCase(terms[i])]
      IN  IF Len(terms) = 0 THEN m = "not"
          ELSE CASE m = "or" ->
                      \E t \in 1..Len(termsLower) :
                          \E v \in 1..Len(values) : Includes(values[v], termsLower[t])
                 [] m = "and" ->
                      \A t \in 1..Len(termsLower) :
                          \E v \in 1..Len(values) : Includes(values[v], termsLower[t])
                 [] m = "not" ->
                      \A t \in 1..Len(termsLower) :
                          \A v \in 1..Len(values) : ~Includes(values[v], termsLower[t])

-----------------------------------------------------------------------------
(* A Map: entries [key, value] in insertion order, keys pairwise different. *)

MapHas(map, k) == \E i \in 1..Len(map) : map[i].key = k
MapPos(map, k) == CHOOSE i \in 1..Len(map) : map[i].key = k
\* Map.prototype.get: <<>> (undefined) or <<value>>
MapGet(map, k) == IF MapHas(map, k) THEN <<map[MapPos(map, k)].value>> ELSE <<>>
\* Map.prototype.set: a present key keeps its place, a new one goes last.
MapSet(map, k, v) ==
    IF MapHas(map, k)
    THEN [map EXCEPT ![MapPos(map, k)] = [key |-> k, value |-> v]]
    ELSE Append(map, [key |-> k, value |-> v])
MapKeys(map) == [i \in 1..Len(map) |-> map[i].key]

-----------------------------------------------------------------------------
(* ExtractGalleryData.extract: parsing the blocks, then the fold.          *)

\* lines 64-67: the records of one block's lines
RECURSIVE ParseContent(_, _)
ParseContent(content, galleryName) ==
    IF content = <<>> THEN <<>>
    ELSE parseGalleryLine(Head(content), galleryName)
         \o ParseContent(Tail(content), galleryName)

\* lines 61-68: parsedEntries of rawData
RECURSIVE ParseBlocks(_)
ParseBlocks(rawData) ==
    IF rawData = <<>> THEN <<>>
    ELSE ParseContent(Head(rawData).content, Head(rawData).galleryName)
         \o ParseBlocks(Tail(rawData))

\* the forEach of lines 83-87 without the test of line 84
AddPropertiesUnchecked(properties, props) == properties \o props

\* lines 83-87: entry.properties.forEach(push unless included)
RECURSIVE AddProperties(_, _)
AddProperties(properties, props) ==
    IF props = <<>> THEN properties
    ELSE AddProperties(IF ArrayIncludes(properties, Head(props))
                       THEN properties
                       ELSE Append(properties, Head(props)),
                       Tail(props))

\* lines 79-81 without the test of line 79
AddGalleryUnchecked(galleries, gallery) == Append(galleries, gallery)

\* lines 79-81
AddGallery(galleries, gallery) ==
    IF ArrayIncludes(galleries, gallery) THEN galleries ELSE Append(galleries, gallery)

\* an iteration that sets the entry anew instead of growing the existing one
FoldEntryLastWins(map, entry) ==
    MapSet(map, entry.filename,
           [filename |-> entry.filename,
            galleries |-> <<entry.gallery>>,
            properties |-> AddProperties(<<>>, entry.properties)])

\* lines 73-89: one iteration of the fold
FoldEntry(map, entry) ==
    LET got == MapGet(map, entry.filename)
        existing == IF got # <<>> THEN got[1]
                    ELSE [filename |-> entry.filename, galleries |-> <<>>, properties |-> <<>>]
        updated == [filename |-> existing.filename,
                    galleries |-> AddGallery(existing.galleries, entry.gallery),
                    properties |-> AddProperties(existing.properties, entry.properties)]
    IN  MapSet(map, entry.filename, updated)

\* lines 70-92: the fold of all entries, from a map
RECURSIVE FoldEntries(_, _)
FoldEntries(map, entries) ==
    IF entries = <<>> THEN map
    ELSE FoldEntries(FoldEntry(map, Head(entries)), Tail(entries))

\* lines 61-92: extract() on given rawData
Aggregate(rawData) == FoldEntries(<<>>, ParseBlocks(rawData))

-----------------------------------------------------------------------------
(* ExtractGalleryData.getGalleryContent.                                   *)

\* mdFiles.find(f => f.basename === name): <<>> (undefined) or <<index of the file>>
FindByBasename(mdFiles, name) ==
    IF \E i \in 1..Len(mdFiles) : mdFiles[i].basename = name
    THEN <<SetMin({i \in 1..Len(mdFiles) : mdFiles[i].basename = name})>>
    ELSE <<>>

\* lines 104, 110: { content: content.split("\n"), galleryName: file.basename }
Block(file) == [content |-> split(file.content, "\n"), galleryName |-> file.basename]

\* line 109: this.sourceData.some(tag => content.includes(tag))
HasMarker(content, markers) == \E i \in 1..Len(markers) : Includes(content, markers[i])

-----------------------------------------------------------------------------
(* The documents the model's vaults are made of.                           *)

Tag == <<"#", "m", "d", "G", "a", "l", "l", "e", "r", "y">>

RECURSIVE JoinLines(_)
JoinLines(ls) == IF Len(ls) = 0 THEN <<>>
                 ELSE IF Len(ls) = 1 THEN ls[1]
                 ELSE ls[1] \o <<"\n">> \o JoinLines(Tail(ls))

Embed(ref) == BareOpen \o ref \o BareClose
AnnotatedEmbed(ref, props) ==
    AnnotatedOpen \o ref \o AnnotatedMid \o props \o AnnotatedClose

sCat == <<"C", "a", "t">>
sCat2 == <<"c", "a", "t", "2">>
sDog == <<"d", "o", "g">>
sOwl == <<"o", "w", "l">>
nA == <<"A">>
nAb == <<"A", "b">>
nB == <<"B">>
nC == <<"C">>

\* "#mdGallery\n![[Cat]]\n<![[dog]]<red, big>>"
DocTagged == JoinLines(<<Tag, Embed(sCat),
                         AnnotatedEmbed(sDog, <<"r", "e", "d", ",", " ", "b", "i", "g">>)>>)
\* "<![[Cat]]<red,red>>\nsee #mdGallery"
DocRepeated == JoinLines(<<AnnotatedEmbed(sCat, <<"r", "e", "d", ",", "r", "e", "d">>),
                           <<"s", "e", "e", " ">> \o Tag>>)
\* "![[Cat]]", no marker
DocPlain == Embed(sCat)
\* "#mdGallery <![[dog]]<>>\r\ntext"
DocEmptyProps == JoinLines(<<Tag \o <<" ">> \o AnnotatedEmbed(sDog, <<>>) \o <<"\r">>,
                             <<"t", "e", "x", "t">>>>)

Contents == {DocTagged, DocRepeated, DocPlain, DocEmptyProps}
Basenames == {nA, nB}
Documents == [basename : Basenames, content : Contents]
RequestedNames == {nA, nB, nC}

-----------------------------------------------------------------------------
(* The variables a specification does not use stay at these values.        *)

IdleExtract == /\ vault = <<>> /\ mode = "none" /\ sourceData = <<>> /\ pc = "idle"
               /\ idx = 0 /\ results = <<>> /\ reads = <<>> /\ parsedEntries = <<>>
               /\ imageMap = <<>> /\ returned = <<>> /\ error = <<>>
IdleView == /\ suggestions = <<>> /\ fullImageMap = <<>> /\ controls = <<>> /\ filters = <<>> /\ virtualMap = <<>>
IdleEval == /\ evValue = <<>> /\ evTerms = <<>> /\ evMode = "none" /\ evResult = <<>>
IdleParse == /\ pLine = <<>> /\ pGallery = <<>> /\ pResult = <<>>
IdleAgg == /\ aggBlocks = <<>> /\ aggPerm = <<>> /\ aggOnce = <<>> /\ aggTwice = <<>>
           /\ aggPermuted = <<>>

-----------------------------------------------------------------------------
(* One call of ExtractGalleryData.extract().  A step runs from one await   *)
(* to the next; the fold is taken one entry at a time.  A cachedRead may   *)
(* be rejected by the vault at any time.                                   *)

\* new ExtractGalleryData(app, mode, sourceData).extract(), up to the first read
StartExtract(files, m, data) ==
    /\ vault = files /\ mode = m /\ sourceData = data
    /\ pc = "select" /\ idx = 1
    /\ results = <<>> /\ reads = <<>> /\ parsedEntries = <<>> /\ imageMap = <<>>
    /\ returned = <<>> /\ error = <<>>

unusedByExtract == <<viewVars, evalVars, parseVars, aggVars>>

\* lines 100-102 with a missing file rejected instead of skipped
ExplicitSkipRejects ==
    /\ pc = "select" /\ mode = "explicit" /\ idx <= Len(sourceData)
    /\ FindByBasename(vault, sourceData[idx]) = <<>>
    /\ pc' = "failed"
    /\ error' = <<0>>
    /\ UNCHANGED <<vault, mode, sourceData, idx, results, reads, parsedEntries, imageMap,
                   returned>>
    /\ UNCHANGED unusedByExtract

\* lines 100-102: no file has the name, continue
ExplicitSkip ==
    /\ pc = "select" /\ mode = "explicit" /\ idx <= Len(sourceData)
    /\ FindByBasename(vault, sourceData[idx]) = <<>>
    /\ idx' = idx + 1
    /\ UNCHANGED <<vault, mode, sourceData, pc, results, reads, parsedEntries, imageMap,
                   returned, error>>
    /\ UNCHANGED unusedByExtract

\* lines 100-104: the file is found and read
ExplicitRead ==
    /\ pc = "select" /\ mode = "explicit" /\ idx <= Len(sourceData)
    /\ FindByBasename(vault, sourceData[idx]) # <<>>
    /\ LET f == FindByBasename(vault, sourceData[idx])[1]
       IN  /\ reads' = Append(reads, [doc |-> f, ok |-> TRUE])
           /\ results' = Append(results, Block(vault[f]))
    /\ idx' = idx + 1
    /\ UNCHANGED <<vault, mode, sourceData, pc, parsedEntries, imageMap, returned, error>>
    /\ UNCHANGED unusedByExtract

\* line 103 with the rejection caught and the file left out
ExplicitReadFailSkipsFile ==
    /\ pc = "select" /\ mode = "explicit" /\ idx <= Len(sourceData)
    /\ FindByBasename(vault, sourceData[idx]) # <<>>
    /\ LET f == FindByBasename(vault, sourceData[idx])[1]
       IN  reads' = Append(reads, [doc |-> f, ok |-> FALSE])
    /\ idx' = idx + 1
    /\ UNCHANGED <<vault, mode, sourceData, pc, results, parsedEntries, imageMap, returned,
                   error>>
    /\ UNCHANGED unusedByExtract

\* line 103: the read is rejected; the rejection leaves getGalleryContent and,
\* through the await of line 60, extract
ExplicitReadFail ==
    /\ pc = "select" /\ mode = "explicit" /\ idx <= Len(sourceData)
    /\ FindByBasename(vault, sourceData[idx]) # <<>>
    /\ LET f == FindByBasename(vault, sourceData[idx])[1]
       IN  /\ reads' = Append(reads, [doc |-> f, ok |-> FALSE])
           /\ error' = <<f>>
    /\ pc' = "failed"
    /\ UNCHANGED <<vault, mode, sourceData, idx, results, parsedEntries, imageMap, returned>>
    /\ UNCHANGED unusedByExtract

\* lines 107-111: every file is read, and kept when it holds a marker
VirtualRead ==
    /\ pc = "select" /\ mode = "virtual" /\ idx <= Len(vault)
    /\ reads' = Append(reads, [doc |-> idx, ok |-> TRUE])
    /\ results' = IF HasMarker(vault[idx].content, sourceData)
                  THEN Append(results, Block(vault[idx]))
                  ELSE results
    /\ idx' = idx + 1
    /\ UNCHANGED <<vault, mode, sourceData, pc, parsedEntries, imageMap, returned, error>>
    /\ UNCHANGED unusedByExtract

\* line 108: the read is rejected
VirtualReadFail ==
    /\ pc = "select" /\ mode = "virtual" /\ idx <= Len(vault)
    /\ reads' = Append(reads, [doc |-> idx, ok |-> FALSE])
    /\ error' = <<idx>>
    /\ pc' = "failed"
    /\ UNCHANGED <<vault, mode, sourceData, idx, results, parsedEntries, imageMap, returned>>
    /\ UNCHANGED unusedByExtract

\* The loop of getGalleryContent is over.
SelectionOver == \/ mode = "explicit" /\ idx > Len(sourceData)
                 \/ mode = "virtual" /\ idx > Len(vault)

\* lines 115, 60-70: getGalleryContent returns, extract parses every line
ParseStep ==
    /\ pc = "select" /\ SelectionOver
    /\ parsedEntries' = ParseBlocks(results)
    /\ pc' = "fold" /\ idx' = 1
    /\ UNCHANGED <<vault, mode, sourceData, results, reads, imageMap, returned, error>>
    /\ UNCHANGED unusedByExtract

\* lines 72-90: one iteration
FoldStep ==
    /\ pc = "fold" /\ idx <= Len(parsedEntries)
    /\ imageMap' = FoldEntry(imageMap, parsedEntries[idx])
    /\ idx' = idx + 1
    /\ UNCHANGED <<vault, mode, sourceData, pc, results, reads, parsedEntries, returned, error>>
    /\ UNCHANGED unusedByExtract

\* line 92
ReturnMap ==
    /\ pc = "fold" /\ idx > Len(parsedEntries)
    /\ returned' = <<imageMap>>
    /\ pc' = "done"
    /\ UNCHANGED <<vault, mode, sourceData, idx, results, reads, parsedEntries, imageMap, error>>
    /\ UNCHANGED unusedByExtract

\* GalleryInCodeBlock.onload (explicit, the names of the code block) and
\* GallerySearchView.onOpen (virtual, ["#mdGallery"])
Init ==
    /\ \E files \in SeqsUpTo(Documents, MaxDocs) :
          \/ \E names \in SeqsUpTo(RequestedNames, MaxNames) :
                StartExtract(files, "explicit", names)
          \/ StartExtract(files, "virtual", <<Tag>>)
    /\ IdleView /\ IdleEval /\ IdleParse /\ IdleAgg

Next == \/ ExplicitSkip
        \/ ExplicitRead
        \/ ExplicitReadFail
        \/ VirtualRead
        \/ VirtualReadFail
        \/ ParseStep
        \/ FoldStep
        \/ ReturnMap

Spec == Init /\ [][Next]_vars

-----------------------------------------------------------------------------
(* One call of parseGalleryLine, on a line made of a few tokens.           *)

LineTokens == {AnnotatedOpen, BareOpen, AnnotatedMid, BareClose, AnnotatedClose,
               <<"a">>, <<",">>, <<" ", "b", " ">>}
ParseLinesOf(n) == {Flatten(ts) : ts \in SeqsUpTo(LineTokens, n)}

InitParse ==
    /\ pLine \in ParseLinesOf(MaxTokens)
    /\ pGallery = nA
    /\ pResult = <<>>
    /\ IdleExtract /\ IdleView /\ IdleEval /\ IdleAgg

\* pResult: <<>> before the call, <<r>> after it, r what the call returned
CallParse ==
    /\ pResult = <<>>
    /\ pResult' = <<parseGalleryLine(pLine, pGallery)>>
    /\ UNCHANGED <<pLine, pGallery, extractVars, viewVars, evalVars, aggVars>>

NextParse == CallParse

SpecParse == InitParse /\ [][NextParse]_vars

-----------------------------------------------------------------------------
(* One call of evaluateField.                                              *)

\* "", "a", "Ab", "B", "ba"
EvalWords == {<<>>, <<"a">>, <<"A", "b">>, <<"B">>, <<"b", "a">>}

InitEval ==
    /\ evValue \in {Scalar(w) : w \in EvalWords}
                   \cup {Array(a) : a \in SeqsUpTo(EvalWords, MaxValues)}
    /\ evTerms \in SeqsUpTo(EvalWords, MaxTerms)
    /\ evMode \in LogicModes
    /\ evResult = <<>>
    /\ IdleExtract /\ IdleView /\ IdleParse /\ IdleAgg

\* evResult: <<>> before the call, <<b>> after it, b what the call returned
CallEvaluate ==
    /\ evResult = <<>>
    /\ evResult' = <<evaluateField(evValue, evTerms, evMode)>>
    /\ UNCHANGED <<evValue, evTerms, evMode, extractVars, viewVars, parseVars, aggVars>>

NextEval == CallEvaluate

SpecEval == InitEval /\ [][NextEval]_vars

-----------------------------------------------------------------------------
(* GallerySearchView: onOpen and the handler of the Search button.         *)

Fields == {"filename", "gallery", "property"}

\* lines 239-264: the options the three search blocks suggest
extractAutocompleteOptions(files) ==
    LET tagged == {i \in 1..Len(files) : Includes(files[i].content, Tag)}
        parsed(i) == ParseContent(split(files[i].content, "\n"), files[i].basename)
        entries == UNION {{parsed(i)[k] : k \in 1..Len(parsed(i))} : i \in tagged}
    IN  [filename |-> {e.filename : e \in entries},
         gallery  |-> {files[i].basename : i \in tagged},
         property |-> UNION {{e.properties[k] : k \in 1..Len(e.properties)} : e \in entries}]

\* lines 400-404 with some(Boolean) for every(Boolean)
shouldIncludeAnyField(filename, entry, f) ==
    LET fileMatch == evaluateField(Scalar(filename), f.filenameTerms, f.filenameMode)
        galleryMatch == evaluateField(Array(entry.galleries), f.galleryTerms, f.galleryMode)
        propMatch == evaluateField(Array(entry.properties), f.propertyTerms, f.propertyMode)
    IN  \/ (f.filenameMode = "disable" \/ fileMatch)
        \/ (f.galleryMode = "disable" \/ galleryMatch)
        \/ (f.propertyMode = "disable" \/ propMatch)

\* lines 400-404
shouldInclude(filename, entry, f) ==
    LET fileMatch == evaluateField(Scalar(filename), f.filenameTerms, f.filenameMode)
        galleryMatch == evaluateField(Array(entry.galleries), f.galleryTerms, f.galleryMode)
        propMatch == evaluateField(Array(entry.properties), f.propertyTerms, f.propertyMode)
    IN  /\ (f.filenameMode = "disable" \/ fileMatch)
        /\ (f.galleryMode = "disable" \/ galleryMatch)
        /\ (f.propertyMode = "disable" \/ propMatch)

\* lines 395-412: the loop over fullImageMap.entries(), from the entry at position i
RECURSIVE FilterEntries(_, _, _, _)
FilterEntries(full, f, i, vmap) ==
    IF i > Len(full) THEN vmap
    ELSE LET filename == full[i].key
             entry == full[i].value
         IN  FilterEntries(full, f, i + 1,
                 IF shouldInclude(filename, entry, f)
                 THEN MapSet(vmap, filename,
                             [properties |-> entry.properties, galleries |-> entry.galleries])
                 ELSE vmap)

\* lines 369-371, 180: three blocks, each on "disable" with nothing selected
NewControls == [fld \in Fields |-> [mode |-> "disable", selected |-> <<>>]]

unusedByView == <<evalVars, parseVars, aggVars>>

\* line 377: extract() has returned, onOpen goes on
onOpenResume ==
    /\ pc = "done" /\ fullImageMap = <<>>
    /\ fullImageMap' = returned
    /\ UNCHANGED <<suggestions, controls, filters, virtualMap, extractVars, unusedByView>>

\* the select of a block is set to another mode
SelectMode(fld, m) ==
    /\ controls[fld].mode # m
    /\ controls' = [controls EXCEPT ![fld].mode = m]
    /\ filters' = <<>>
    /\ UNCHANGED <<suggestions, fullImageMap, virtualMap, extractVars, unusedByView>>

\* lines 202, 206-211: a listed suggestion is clicked
ClickSuggestion(fld, tag) ==
    /\ tag \in suggestions[fld]
    /\ ~ArrayIncludes(controls[fld].selected, tag)
    /\ controls' = [controls EXCEPT ![fld].selected = Append(@, tag)]
    /\ filters' = <<>>
    /\ UNCHANGED <<suggestions, fullImageMap, virtualMap, extractVars, unusedByView>>

\* lines 190-193: a chip is clicked
ClickChip(fld, k) ==
    /\ k \in 1..Len(controls[fld].selected)
    /\ controls' = [controls EXCEPT ![fld].selected =
                       SubSeq(@, 1, k - 1) \o SubSeq(@, k + 1, Len(@))]
    /\ filters' = <<>>
    /\ UNCHANGED <<suggestions, fullImageMap, virtualMap, extractVars, unusedByView>>

\* the handler with the entries that do not match deleted from fullImageMap
ConfirmClickInPlace ==
    /\ fullImageMap # <<>>
    /\ LET f == [filenameTerms |-> controls["filename"].selected,
                 galleryTerms  |-> controls["gallery"].selected,
                 propertyTerms |-> controls["property"].selected,
                 filenameMode  |-> controls["filename"].mode,
                 galleryMode   |-> controls["gallery"].mode,
                 propertyMode  |-> controls["property"].mode]
           Keep(e) == shouldInclude(e.key, e.value, f)
       IN  /\ filters' = <<f>>
           /\ virtualMap' = <<FilterEntries(fullImageMap[1], f, 1, <<>>)>>
           /\ fullImageMap' = <<SelectSeq(fullImageMap[1], Keep)>>
    /\ UNCHANGED <<suggestions, controls, extractVars, unusedByView>>

\* lines 381-412: the Search button is clicked, once onOpen has set the handler.
\* The handler has no await, so it runs as one step; lines 413-425 only build
\* DOM nodes from virtualMap.
ConfirmClick ==
    /\ fullImageMap # <<>>
    /\ LET f == [filenameTerms |-> controls["filename"].selected,
                 galleryTerms  |-> controls["gallery"].selected,
                 propertyTerms |-> controls["property"].selected,
                 filenameMode  |-> controls["filename"].mode,
                 galleryMode   |-> controls["gallery"].mode,
                 propertyMode  |-> controls["property"].mode]
       IN  /\ filters' = <<f>>
           /\ virtualMap' = <<FilterEntries(fullImageMap[1], f, 1, <<>>)>>
    /\ UNCHANGED <<suggestions, fullImageMap, controls, extractVars, unusedByView>>

\* "#mdGallery\n![[Cat]]\n<![[cat2]]<red, Big>>"
ViewDocA == [basename |-> nA,
             content |-> JoinLines(<<Tag, Embed(sCat),
                 AnnotatedEmbed(sCat2, <<"r", "e", "d", ",", " ", "B", "i", "g">>)>>)]
\* "![[Cat]]\n#mdGallery"
ViewDocAb == [basename |-> nAb, content |-> JoinLines(<<Embed(sCat), Tag>>)]
\* "![[owl]]", no marker
ViewDocB == [basename |-> nB, content |-> Embed(sOwl)]
\* "#mdGallery <![[dog]]<>>\n![[Cat]]"
ViewDocEmpty == [basename |-> nA,
                 content |-> JoinLines(<<Tag \o <<" ">> \o AnnotatedEmbed(sDog, <<>>),
                                         Embed(sCat)>>)]

ViewVaults == {<<ViewDocA, ViewDocB, ViewDocAb>>, <<ViewDocEmpty>>}

\* every string some vault of the model suggests
Options == UNION {UNION {extractAutocompleteOptions(files)[fld] : fld \in Fields} :
                  files \in ViewVaults}

\* onOpen at line 376: the blocks are built, extract() is about to be called
InitView ==
    /\ \E files \in ViewVaults :
          /\ StartExtract(files, "virtual", <<Tag>>)
          /\ suggestions = extractAutocompleteOptions(files)
    /\ fullImageMap = <<>> /\ controls = NewControls /\ filters = <<>> /\ virtualMap = <<>>
    /\ IdleEval /\ IdleParse /\ IdleAgg

NextView == \/ VirtualRead
            \/ VirtualReadFail
            \/ ParseStep
            \/ FoldStep
            \/ ReturnMap
            \/ onOpenResume
            \/ \E fld \in Fields, m \in LogicModes : SelectMode(fld, m)
            \/ \E fld \in Fields, tag \in Options : ClickSuggestion(fld, tag)
            \/ \E fld \in Fields, k \in 1..Cardinality(Options) : ClickChip(fld, k)
            \/ ConfirmClick

SpecView == InitView /\ [][NextView]_vars

-----------------------------------------------------------------------------
(* The aggregation of extract() (lines 61-92) on a block sequence, on the  *)
(* sequence fed twice, and on a permutation of it.                         *)

AggBlocks == {Block([basename |-> nA, content |-> DocTagged]),
              Block([basename |-> nB, content |-> DocRepeated]),
              Block([basename |-> nB, content |-> DocEmptyProps]),
              Block([basename |-> nA, content |-> DocPlain])}

BlockOrders(n) == {p \in [1..n -> 1..n] : \A i, j \in 1..n : p[i] = p[j] => i = j}
Permuted(blocks, p) == [i \in 1..Len(blocks) |-> blocks[p[i]]]

InitAgg ==
    /\ aggBlocks \in SeqsUpTo(AggBlocks, MaxBlocks)
    /\ aggPerm \in BlockOrders(Len(aggBlocks))
    /\ aggOnce = <<>> /\ aggTwice = <<>> /\ aggPermuted = <<>>
    /\ IdleExtract /\ IdleView /\ IdleEval /\ IdleParse

\* each result: <<>> before the run, <<map>> after it
AggregateOnce ==
    /\ aggOnce = <<>>
    /\ aggOnce' = <<Aggregate(aggBlocks)>>
    /\ UNCHANGED <<aggBlocks, aggPerm, aggTwice, aggPermuted,
                   extractVars, viewVars, evalVars, parseVars>>

AggregateTwice ==
    /\ aggTwice = <<>>
    /\ aggTwice' = <<Aggregate(aggBlocks \o aggBlocks)>>
    /\ UNCHANGED <<aggBlocks, aggPerm, aggOnce, aggPermuted,
                   extractVars, viewVars, evalVars, parseVars>>

AggregatePermuted ==
    /\ aggPermuted = <<>>
    /\ aggPermuted' = <<Aggregate(Permuted(aggBlocks, aggPerm))>>
    /\ UNCHANGED <<aggBlocks, aggPerm, aggOnce, aggTwice,
                   extractVars, viewVars, evalVars, parseVars>>

NextAgg == \/ AggregateOnce
           \/ AggregateTwice
           \/ AggregatePermuted

SpecAgg == InitAgg /\ [][NextAgg]_vars

-----------------------------------------------------------------------------
(* Properties.                                                             *)

NoDuplicates(seq) == \A i, j \in 1..Len(seq) : seq[i] = seq[j] => i = j
Elements(seq) == {seq[i] : i \in 1..Len(seq)}
Occurrences(seq, x) == Cardinality({i \in 1..Len(seq) : seq[i] = x})
SameElementsSameCounts(s, t) ==
    \A x \in Elements(s) \cup Elements(t) : Occurrences(s, x) = Occurrences(t, x)
Ids(map) == Elements(MapKeys(map))
EntryOf(map, id) == MapGet(map, id)[1]

\* two characters are the same letter, whatever their case
SameLetter(c, d) == \/ c = d
                    \/ c \in UpperCase /\ LowerOf[c] = d
                    \/ d \in UpperCase /\ LowerOf[d] = c
\* term occurs somewhere in value, case ignored
ContainedIn(term, value) ==
    \E off \in 0..(Len(value) - Len(term)) :
        \A k \in 1..Len(term) : SameLetter(value[off + k], term[k])
FieldValues(value) == IF value.isArray THEN Elements(value.val) ELSE {value.val}

(* C1: after a click on Search, an entry of the full index is in the       *)
(* filtered result if and only if evaluateField returns true for each of   *)
(* its three fields under the filter the click read, and the result lists  *)
(* its entries in the order of the full index.                             *)
C1_ResultIsTheMatchingEntries ==
    filters # <<>> =>
        /\ virtualMap # <<>>
        /\ LET f == filters[1]
               AllThree(e) ==
                   /\ evaluateField(Scalar(e.key), f.filenameTerms, f.filenameMode)
                   /\ evaluateField(Array(e.value.galleries), f.galleryTerms, f.galleryMode)
                   /\ evaluateField(Array(e.value.properties), f.propertyTerms, f.propertyMode)
           IN  MapKeys(virtualMap[1]) = MapKeys(SelectSeq(fullImageMap[1], AllThree))

\* a search with no field disabled that keeps some entries and drops others
C1_Witness ==
    /\ filters # <<>>
    /\ filters[1].filenameMode # "disable"
    /\ filters[1].galleryMode # "disable"
    /\ filters[1].propertyMode # "disable"
    /\ Len(virtualMap[1]) > 0
    /\ Len(virtualMap[1]) < Len(fullImageMap[1])

(* C2: with at least one term, evaluateField returns, for or, whether some *)
(* term is contained in some value; for and, whether every term is         *)
(* contained in some value; for not, whether every term is contained in no *)
(* value; containment ignores case.                                        *)
C2_ModesOverNonEmptyTerms ==
    (evResult # <<>> /\ evTerms # <<>>) =>
        LET vs == FieldValues(evValue)
            ts == Elements(evTerms)
        IN  /\ evMode = "or" =>
                 evResult[1] = (\E t \in ts : \E v \in vs : ContainedIn(t, v))
            /\ evMode = "and" =>
                 evResult[1] = (\A t \in ts : \E v \in vs : ContainedIn(t, v))
            /\ evMode = "not" =>
                 evResult[1] = (\A t \in ts : \A v \in vs : ~ContainedIn(t, v))

\* and holds although no single value contains every term
C2_Witness ==
    /\ evResult = <<TRUE>> /\ evMode = "and" /\ Len(evTerms) = 2
    /\ \A v \in FieldValues(evValue) : \E t \in Elements(evTerms) : ~ContainedIn(t, v)

(* C3: at every point of the fold of extract(), and in the map it returns, *)
(* no entry lists a gallery twice and no entry lists a property twice.     *)
C3_NoDuplicateGalleriesOrProperties ==
    /\ \A i \in 1..Len(imageMap) :
          /\ NoDuplicates(imageMap[i].value.galleries)
          /\ NoDuplicates(imageMap[i].value.properties)
    /\ returned # <<>> =>
          \A i \in 1..Len(returned[1]) :
              /\ NoDuplicates(returned[1][i].value.galleries)
              /\ NoDuplicates(returned[1][i].value.properties)

\* the fold has taken two records of one item with the same gallery and a
\* common property, one of them with a property written twice
C3_Witness ==
    /\ pc = "fold"
    /\ \E i, j \in 1..(idx - 1) :
          /\ i < j
          /\ parsedEntries[i].filename = parsedEntries[j].filename
          /\ parsedEntries[i].gallery = parsedEntries[j].gallery
          /\ Elements(parsedEntries[i].properties) \cap Elements(parsedEntries[j].properties) # {}
          /\ ~NoDuplicates(parsedEntries[j].properties)

(* C4, as claimed: with no term, evaluateField returns true under or, and  *)
(* and not.                                                                *)
C4_EmptyTermsAlwaysTrue ==
    (evResult # <<>> /\ evTerms = <<>> /\ evMode \in {"or", "and", "not"}) =>
        evResult[1] = TRUE

(* C4, amended: with no term, evaluateField returns true under not and     *)
(* false under or and under and, whatever the field value.                 *)
C4_EmptyTermsTrueOnlyUnderNot ==
    (evResult # <<>> /\ evTerms = <<>> /\ evMode \in {"or", "and", "not"}) =>
        evResult[1] = (evMode = "not")

\* and with no term on a field that has values returned false
C4_Witness ==
    /\ evResult = <<FALSE>> /\ evTerms = <<>> /\ evMode = "and"
    /\ evValue.isArray /\ Len(evValue.val) > 0

(* C5: a line that matches the annotated shape with an empty property      *)
(* segment parses to a record with no property.                            *)
C5_EmptySegmentNoProperties ==
    (/\ pResult # <<>>
     /\ matchAnnotated(pLine) # <<>>
     /\ matchAnnotated(pLine)[1].g2 = <<<<>>>>) =>
        /\ pResult[1] # <<>>
        /\ Len(pResult[1][1].properties) = 0

(* C6: the blocks fed twice give the index the blocks fed once give: the   *)
(* same items, each once, and for each item the same galleries and the     *)
(* same properties, none of them more often.                               *)
C6_TwiceAsOnce ==
    (aggOnce # <<>> /\ aggTwice # <<>>) =>
        /\ SameElementsSameCounts(MapKeys(aggTwice[1]), MapKeys(aggOnce[1]))
        /\ \A id \in Ids(aggOnce[1]) :
              /\ SameElementsSameCounts(EntryOf(aggTwice[1], id).galleries,
                                        EntryOf(aggOnce[1], id).galleries)
              /\ SameElementsSameCounts(EntryOf(aggTwice[1], id).properties,
                                        EntryOf(aggOnce[1], id).properties)

\* both runs are over, and some item has two galleries and two properties
C6_Witness ==
    /\ aggOnce # <<>> /\ aggTwice # <<>>
    /\ \E id \in Ids(aggOnce[1]) :
          /\ Len(EntryOf(aggOnce[1], id).galleries) >= 2
          /\ Len(EntryOf(aggOnce[1], id).properties) >= 2

(* C7: the blocks in another order give an index with the same items and,  *)
(* for each item, the same set of galleries and the same set of            *)
(* properties.                                                             *)
C7_BlockOrderIrrelevant ==
    (aggOnce # <<>> /\ aggPermuted # <<>>) =>
        /\ Ids(aggPermuted[1]) = Ids(aggOnce[1])
        /\ \A id \in Ids(aggOnce[1]) :
              /\ Elements(EntryOf(aggPermuted[1], id).galleries)
                    = Elements(EntryOf(aggOnce[1], id).galleries)
              /\ Elements(EntryOf(aggPermuted[1], id).properties)
                    = Elements(EntryOf(aggOnce[1], id).properties)

\* both runs are over, and the order of the blocks shows in the two indexes
C7_Witness ==
    /\ aggOnce # <<>> /\ aggPermuted # <<>>
    /\ MapKeys(aggPermuted[1]) # MapKeys(aggOnce[1])
    /\ \E id \in Ids(aggOnce[1]) :
          EntryOf(aggPermuted[1], id).properties # EntryOf(aggOnce[1], id).properties

(* C8: under the explicit policy the blocks are, in the order of the       *)
(* names, one block per requested name that is the basename of a document, *)
(* named after it; a name without a document adds no block and raises no   *)
(* error, so there are never more blocks than names.                       *)
C8_ExplicitBlocksFollowTheNames ==
    mode = "explicit" =>
        LET handled == IF pc \in {"select", "failed"} THEN idx - 1 ELSE Len(sourceData)
            Known(name) == \E d \in 1..Len(vault) : vault[d].basename = name
            wanted == SelectSeq(SubSeq(sourceData, 1, handled), Known)
        IN  /\ [k \in 1..Len(results) |-> results[k].galleryName] = wanted
            /\ Len(results) <= Len(sourceData)
            /\ pc = "failed" => (reads # <<>> /\ ~reads[Len(reads)].ok)

\* the selection is over: some names had a document, some had none
C8_Witness ==
    /\ mode = "explicit" /\ pc = "done"
    /\ results # <<>>
    /\ Len(results) < Len(sourceData)
    /\ \E k \in 1..Len(sourceData) : FindByBasename(vault, sourceData[k]) = <<>>

(* C9: a read that fails is the last read of the call: the call ends with  *)
(* that error, nothing is returned, and nothing is parsed or folded.       *)
C9_FailedReadEndsTheCall ==
    \A i \in 1..Len(reads) :
        ~reads[i].ok =>
            /\ i = Len(reads)
            /\ pc = "failed"
            /\ error = <<reads[i].doc>>
            /\ returned = <<>>
            /\ parsedEntries = <<>>
            /\ imageMap = <<>>

\* a read failed after blocks had been collected and before the last document
C9_Witness ==
    /\ pc = "failed"
    /\ results # <<>>
    /\ \/ mode = "explicit" /\ idx < Len(sourceData)
       \/ mode = "virtual" /\ idx < Len(vault)

(* C10: once onOpen holds the full index, no step changes it: not its      *)
(* items, not their order, not their galleries or properties.              *)
C10_FullIndexNeverChanges == [][fullImageMap # <<>> => fullImageMap' = fullImageMap]_vars

\* a search has dropped every entry of a full index that has entries
C10_Witness ==
    /\ filters # <<>>
    /\ virtualMap = <<<<>>>>
    /\ Len(fullImageMap[1]) >= 2

=============================================================================
